---- MODULE Spec2Model ----
(***************************************************************************)
(* wiki-builder: the archive builder (createSecondLevelIndex,              *)
(* writeSecondLevel, writeFirstLevel), the reader (OpenWiki, entryOffset,  *)
(* query, entryAt), the compressor (writeEntries) and the indexer          *)
(* (readData).  Files are sequences of bytes, names are sequences of Go    *)
(* runes, keys are sequences of UTF-16 code units.                         *)
(***************************************************************************)
EXTENDS Integers, Sequences, FiniteSets, TLC

(***************************************************************************)
(* Bounds of the model.                                                    *)
(***************************************************************************)

\* Rows a first-level block holds before the next change of first-level key
\* opens a new block.  The builder uses 1024 (redirect.go:284); the model
\* scales the block so that several blocks fit into its archives.
RowsPerJump == 2

\* Most second-level rows (entries plus redirects) of a modelled archive.
MaxRows == 4

\* Most reader operations (entryOffset, query) run on one open handle.
MaxOps == 1

(***************************************************************************)
(* Program constants.                                                      *)
(***************************************************************************)

\* make([]byte, 512): the reader's scratch buffer w.buf.
BufSize == 512

\* limit := 32 in Wiki.query.
QueryLimit == 32

\* len(nameUTF16) > 127 / numChars > 127.
MaxKeyChars == 127

(***************************************************************************)
(* Bytes, integers of fixed width, sequences.                              *)
(***************************************************************************)

Min(a, b) == IF a < b THEN a ELSE b

\* byte(v), uint16(v): Go's truncating conversions.
U8(v) == v % 256
U16(v) == v % 65536

\* uint32(v).  TLC's integers end at 2^31 - 1, below the value at which a
\* uint32 wraps, and every 32-bit quantity of the model stays below that.
U32(v) == v

\* s[from:to] of a Go slice, 0-based and half-open.
Slice(s, from, to) == SubSeq(s, from + 1, to)

\* n zero bytes.
Zeros(n) == [i \in 1..n |-> 0]

\* binary.LittleEndian.AppendUint16 / AppendUint32 as the bytes appended.
LE16(v) == <<v % 256, (v \div 256) % 256>>
LE32(v) == <<v % 256, (v \div 256) % 256, (v \div 65536) % 256, (v \div 16777216) % 256>>

\* binary.LittleEndian.Uint16(b[i:]) / Uint32(b[i:]).
Uint16At(b, i) == b[i + 1] + 256 * b[i + 2]
Uint32At(b, i) == b[i + 1] + 256 * b[i + 2] + 65536 * b[i + 3] + 16777216 * b[i + 4]

\* slices.Compare on sequences of integers: -1, 0 or 1.
Compare(a, b) ==
    LET n == Min(Len(a), Len(b))
        diffs == {k \in 1..n : a[k] /= b[k]}
        first == CHOOSE k \in diffs : \A l \in diffs : k <= l
    IN IF diffs /= {} THEN (IF a[first] < b[first] THEN -1 ELSE 1)
       ELSE IF Len(a) < Len(b) THEN -1
       ELSE IF Len(a) > Len(b) THEN 1
       ELSE 0

\* strings.HasPrefix on strings held as sequences of runes.
HasPrefix(s, prefix) ==
    Len(prefix) <= Len(s) /\ SubSeq(s, 1, Len(prefix)) = prefix

(***************************************************************************)
(* UTF-16 (unicode/utf16), on runes as integers.                           *)
(***************************************************************************)

IsSurrogate(r) == r >= 55296 /\ r < 57344

\* utf16.Encode([]rune(s)).
RECURSIVE Utf16Encode(_)
Utf16Encode(s) ==
    IF s = <<>> THEN <<>>
    ELSE IF Len(s) = 1
         THEN LET r == s[1]
              IN IF IsSurrogate(r) \/ r > 1114111 THEN <<65533>>
                 ELSE IF r < 65536 THEN <<r>>
                 ELSE <<55296 + ((r - 65536) \div 1024), 56320 + ((r - 65536) % 1024)>>
    ELSE Utf16Encode(SubSeq(s, 1, Len(s) \div 2))
             \o Utf16Encode(SubSeq(s, Len(s) \div 2 + 1, Len(s)))

\* utf16.Decode(chars), as the runes of the string it is converted to.
RECURSIVE Utf16Decode(_)
Utf16Decode(u) ==
    IF u = <<>> THEN <<>>
    ELSE IF Len(u) >= 2 /\ u[1] >= 55296 /\ u[1] < 56320 /\ u[2] >= 56320 /\ u[2] < 57344
         THEN <<65536 + (u[1] - 55296) * 1024 + (u[2] - 56320)>> \o Utf16Decode(Tail(Tail(u)))
    ELSE IF IsSurrogate(u[1]) THEN <<65533>> \o Utf16Decode(Tail(u))
    ELSE <<u[1]>> \o Utf16Decode(Tail(u))

(***************************************************************************)
(* zlib (compress/zlib), as far as the pipeline depends on it: a stream    *)
(* begins with the header byte 120 and inflates to the bytes deflated.     *)
(***************************************************************************)

Deflate(content) == <<120>> \o content

Inflate(blob) ==
    IF blob /= <<>> /\ blob[1] = 120
    THEN [err |-> FALSE, content |-> Tail(blob)]
    ELSE [err |-> TRUE, content |-> <<>>]

(***************************************************************************)
(* storage.EntryMetadata                                                   *)
(***************************************************************************)

\* EntryMetadata.StartOffset(i), i 0-based.
StartOffset(em, i) == IF i = 0 THEN 0 ELSE em.endOffsets[i]

\* EntryMetadata.Name(i), i 0-based.
Name(em, i) == em.namesUTF16[i + 1]

\* EntryMetadata.Len().
EntriesLen(em) == Len(em.namesUTF16)

(***************************************************************************)
(* The archive builder.                                                    *)
(***************************************************************************)

newSecondLevelIndexRow(name, off) == [nameUTF16 |-> name, offset |-> off]

\* The rows before sorting: the entries in order, then the redirects.
MergedRows(em, redirects) ==
    [k \in 1..(EntriesLen(em) + Len(redirects)) |->
        IF k <= EntriesLen(em)
        THEN newSecondLevelIndexRow(Name(em, k - 1), StartOffset(em, k - 1))
        ELSE LET r == redirects[k - EntriesLen(em)]
             IN newSecondLevelIndexRow(r.NameUTF16, StartOffset(em, r.EntryIdx))]

IsSortedRows(rows) ==
    \A k \in 1..(Len(rows) - 1) : Compare(rows[k].nameUTF16, rows[k + 1].nameUTF16) <= 0

Orderings(n) == {p \in [1..n -> 1..n] : \A i, j \in 1..n : i /= j => p[i] /= p[j]}

\* createSecondLevelIndex: every order slices.SortFunc may leave the merged
\* rows in (it is not stable: rows of equal name may come out in any order).
createSecondLevelIndex(em, redirects) ==
    LET rows == MergedRows(em, redirects)
        n == Len(rows)
    IN {sorted \in {[k \in 1..n |-> rows[p[k]]] : p \in Orderings(n)} : IsSortedRows(sorted)}

\* newFirstLevelIndexKey: the first four code units, zero-padded.
newFirstLevelIndexKey(chars) ==
    <<chars[1],
      IF Len(chars) > 1 THEN chars[2] ELSE 0,
      IF Len(chars) > 2 THEN chars[3] ELSE 0,
      IF Len(chars) > 3 THEN chars[4] ELSE 0>>

\* A changed prefix length: no code unit is shared.
noCommonPrefix(lhs, rhs) == 0

\* commonPrefixLen(lhs, rhs), with maxPossible a byte: the first index at
\* which the keys differ, or maxPossible.
commonPrefixLen(lhs, rhs) ==
    LET maxPossible == U8(Min(Len(lhs), Len(rhs)))
        differing == {i \in 0..(maxPossible - 1) : lhs[i + 1] /= rhs[i + 1]}
    IN IF differing = {} THEN maxPossible
       ELSE CHOOSE i \in differing : \A l \in differing : i <= l

\* appendOffset: the five low bytes of v, little endian.
appendOffset(v) ==
    <<v % 256, (v \div 256) % 256, (v \div 65536) % 256,
      (v \div 16777216) % 256, ((v \div 16777216) \div 256) % 256>>

\* A changed condition for a new first-level row: the change of key alone.
shouldJumpOnKeyAlone(st, r) == newFirstLevelIndexKey(r.nameUTF16) /= st.prevFirstLevelKey

\* A changed condition for a new first-level row: the count alone.
shouldJumpOnCountAlone(st, r) == st.countForPrevKey >= RowsPerJump

\* countForPrevKey >= 1024 && currFirstLevelIndexKey != prevFirstLevelKey,
\* with the model's RowsPerJump for 1024.
shouldJump(st, r) ==
    st.countForPrevKey >= RowsPerJump
    /\ newFirstLevelIndexKey(r.nameUTF16) /= st.prevFirstLevelKey

\* One pass of the loop in writeSecondLevel over row r.  st holds the loop's
\* variables, the bytes written so far (out) and, for each row written, the
\* byte position and header it was written with (written).
writeRow(st, r) ==
    LET currFirstLevelIndexKey == newFirstLevelIndexKey(r.nameUTF16)
        jump == shouldJump(st, r)
        shouldCompress == ~jump
        numChars == Len(r.nameUTF16)
        commonLen == IF shouldCompress THEN commonPrefixLen(st.prevKey, r.nameUTF16) ELSE 0
        remainingLen == U8(U8(numChars) - commonLen)
        keyBytes == [b \in 1..(2 * (numChars - commonLen)) |->
                        LET ch == r.nameUTF16[commonLen + ((b + 1) \div 2)]
                        IN IF b % 2 = 1 THEN ch % 256 ELSE (ch \div 256) % 256]
        bb == <<commonLen, remainingLen>> \o keyBytes \o appendOffset(r.offset)
    IN IF st.panic \/ numChars > MaxKeyChars
       THEN [st EXCEPT !.panic = TRUE]
       ELSE [st EXCEPT
               !.keys = IF jump THEN Append(@, currFirstLevelIndexKey) ELSE @,
               !.offsets = IF jump THEN Append(@, st.totalSize) ELSE @,
               !.countForPrevKey = (IF jump THEN 0 ELSE @) + 1,
               !.prevFirstLevelKey = currFirstLevelIndexKey,
               !.prevKey = r.nameUTF16,
               !.totalSize = U32(st.totalSize + 1 + 1 + remainingLen * 2 + 5),
               !.out = @ \o bb,
               !.written = Append(@, [pos |-> Len(st.out), common |-> commonLen,
                                      remaining |-> remainingLen, jump |-> jump,
                                      key |-> r.nameUTF16, offset |-> r.offset])]

RECURSIVE writeRows(_, _, _)
writeRows(st, rows, k) ==
    IF k > Len(rows) THEN st ELSE writeRows(writeRow(st, rows[k]), rows, k + 1)

\* The end of writeSecondLevel: totalSize += 4 and the u32 written.
writeSecondLevelSize(totalSize) == LE32(U32(totalSize + 4))

\* writeSecondLevel(w, rows): the bytes written to w and the first-level index
\* returned; rows[0] of an empty list panics.
writeSecondLevel(rows) ==
    IF rows = <<>> THEN [panic |-> TRUE]
    ELSE LET st0 == [totalSize |-> 0,
                     keys |-> <<newFirstLevelIndexKey(rows[1].nameUTF16)>>,
                     offsets |-> <<0>>,
                     prevFirstLevelKey |-> newFirstLevelIndexKey(rows[1].nameUTF16),
                     countForPrevKey |-> 0,
                     prevKey |-> <<>>,
                     out |-> <<>>,
                     written |-> <<>>,
                     panic |-> FALSE]
             st == writeRows(st0, rows, 1)
         IN IF st.panic THEN [panic |-> TRUE]
            ELSE [panic |-> FALSE,
                  out |-> st.out \o writeSecondLevelSize(st.totalSize),
                  keys |-> st.keys,
                  offsets |-> st.offsets,
                  written |-> st.written]

\* firstLevelIndexKey.Append: four code units, little endian.
firstLevelIndexKeyAppend(p) == LE16(p[1]) \o LE16(p[2]) \o LE16(p[3]) \o LE16(p[4])

RECURSIVE Concat(_)
Concat(ss) == IF ss = <<>> THEN <<>> ELSE Head(ss) \o Concat(Tail(ss))

\* totalSize := uint16((len(index.keys) * (8 + 4)) + 2)
firstLevelTotalSize(numKeys) == U16(numKeys * (8 + 4) + 2)

\* The elements of ss, each w bytes long, one after the other.
ConcatFixed(ss, w) ==
    [b \in 1..(Len(ss) * w) |-> ss[((b - 1) \div w) + 1][((b - 1) % w) + 1]]

\* writeFirstLevel(w, index): the bytes written.
writeFirstLevel(index) ==
    ConcatFixed([k \in 1..Len(index.keys) |-> firstLevelIndexKeyAppend(index.keys[k])], 8)
    \o ConcatFixed([k \in 1..Len(index.offsets) |-> LE32(index.offsets[k])], 4)
    \o LE16(firstLevelTotalSize(Len(index.keys)))

(***************************************************************************)
(* The reader.                                                             *)
(***************************************************************************)

\* copy(buf[start:start+len(bytes)], bytes)
WriteBuf(b, start, bytes) ==
    SubSeq(b, 1, start) \o bytes \o SubSeq(b, start + Len(bytes) + 1, Len(b))

\* decodeFirstLevelIndex(r, numEntries), reading data from position pos.
decodeFirstLevelIndex(data, pos, numEntries) ==
    IF pos + numEntries * 12 > Len(data) THEN [err |-> TRUE]
    ELSE [err |-> FALSE,
          keyChars |-> [c \in 1..(numEntries * 4) |-> Uint16At(data, pos + 2 * (c - 1))],
          offsets |-> [e \in 1..numEntries |-> Uint32At(data, pos + numEntries * 8 + 4 * (e - 1))]]

\* OpenWiki(path) on a file holding data: the handle, or an error.
OpenWiki(data) ==
    IF Len(data) < 2 THEN [err |-> TRUE]
    ELSE LET buf2 == WriteBuf(Zeros(BufSize), 0, Slice(data, Len(data) - 2, Len(data)))
             firstLevelIndexSize == Uint16At(buf2, 0)
             numFirstLevelIndexEntries == U16(firstLevelIndexSize - 2) \div 12
             at == Len(data) - firstLevelIndexSize - 4
         IN IF at < 0 THEN [err |-> TRUE]
            ELSE LET buf4 == WriteBuf(buf2, 0, Slice(data, at, Min(at + 4, Len(data))))
                     secondLevelIndexSize == Uint32At(buf4, 0)
                     idx == decodeFirstLevelIndex(data, at + 4, numFirstLevelIndexEntries)
                 IN IF idx.err THEN [err |-> TRUE]
                    ELSE [err |-> FALSE,
                          first |-> [keyChars |-> idx.keyChars, offsets |-> idx.offsets],
                          secondLevelIndexOffsetFromEnd |-> firstLevelIndexSize + secondLevelIndexSize,
                          buf |-> buf4]

\* firstLevelIndex.offset(s): the second-level offset to start the walk at.
RECURSIVE firstLevelScan(_, _, _)
firstLevelScan(index, chars, i) ==
    IF i >= Len(index.offsets)
    THEN [err |-> FALSE, offset |-> index.offsets[Len(index.offsets)]]
    ELSE IF Compare(SubSeq(index.keyChars, i * 4 + 1, i * 4 + 4), chars) > 0
         THEN IF i = 0 THEN [err |-> TRUE, offset |-> 0]
              ELSE [err |-> FALSE, offset |-> index.offsets[i]]
         ELSE firstLevelScan(index, chars, i + 1)

firstLevelIndexOffset(index, s) == firstLevelScan(index, Utf16Encode(s), 0)

\* compareTo(buf, prefixChars, numBufferBytes)
RECURSIVE compareFrom(_, _, _, _)
compareFrom(b, prefixChars, numBufferBytes, i) ==
    IF i >= Min(numBufferBytes \div 2, Len(prefixChars))
    THEN numBufferBytes - Len(prefixChars) * 2
    ELSE LET cmp == Uint16At(b, i * 2) - prefixChars[i + 1]
         IN IF cmp /= 0 THEN cmp ELSE compareFrom(b, prefixChars, numBufferBytes, i + 1)

compareTo(b, prefixChars, numBufferBytes) == compareFrom(b, prefixChars, numBufferBytes, 0)

\* entryOffsetToUInt64(b, offset): the 40-bit number, held as its five bytes
\* from the lowest (it can exceed TLC's integers).
entryOffsetToUInt64(b, off) == <<b[off + 1], b[off + 2], b[off + 3], b[off + 4], b[off + 5]>>

\* Whether a 40-bit number held as five bytes is below 2^31, and its value.
IsSmall(o) == o[5] = 0 /\ o[4] < 128
ValueOf(o) == o[1] + 256 * o[2] + 65536 * o[3] + 16777216 * o[4]

\* entryLength(b)
entryLength(b) == b[1] + 256 * b[2] + 65536 * b[3]

\* Wiki.readString(numBytes)
readString(b, numBytes) ==
    Utf16Decode([c \in 1..(numBytes \div 2) |-> Uint16At(b, 2 * (c - 1))])

\* The header and key reads shared by entryOffset, query and
\* readSecondLevelIndex: from file position pos, two header bytes, then
\* numRemainingChars*2+5 bytes into buf[commonPrefixLen*2:], both products
\* computed in bytes.  io.ReadFull fails on a short read, after copying what
\* there was.
readRow(data, pos, b) ==
    IF pos + 2 > Len(data) THEN [err |-> TRUE, buf |-> b, pos |-> Len(data)]
    ELSE LET commonPrefixLen_ == data[pos + 1]
             numRemainingChars == data[pos + 2]
             start == U8(commonPrefixLen_ * 2)
             count == U8(numRemainingChars * 2 + 5)
             got == Slice(data, pos + 2, Min(pos + 2 + count, Len(data)))
         IN [err |-> Len(got) < count,
             buf |-> WriteBuf(b, start, got),
             pos |-> pos + 2 + Len(got),
             numKeyBytes |-> (commonPrefixLen_ + numRemainingChars) * 2]

\* Wiki.seekToSecondLevelIndexOffset(offset): the file position, negative when
\* Seek fails.
seekToSecondLevelIndexOffset(w, data, off) == Len(data) - w.secondLevelIndexOffsetFromEnd + off

\* The loop of Wiki.entryOffset from file position pos; decoded counts the
\* rows read so far.
RECURSIVE entryOffsetWalk(_, _, _, _, _)
entryOffsetWalk(data, pos, b, nameChars, decoded) ==
    LET row == readRow(data, pos, b)
    IN IF row.err THEN [kind |-> "err", why |-> "read", buf |-> row.buf, decoded |-> decoded]
       ELSE LET cmp == compareTo(row.buf, nameChars, row.numKeyBytes)
            IN IF cmp = 0
               THEN [kind |-> "ok", offset |-> entryOffsetToUInt64(row.buf, row.numKeyBytes),
                     buf |-> row.buf, decoded |-> decoded + 1]
               ELSE IF cmp > 0
               THEN [kind |-> "err", why |-> "after", buf |-> row.buf, decoded |-> decoded + 1]
               ELSE entryOffsetWalk(data, row.pos, row.buf, nameChars, decoded + 1)

\* Wiki.entryOffset(name) on handle w over the file data with scratch buffer b.
entryOffset(w, data, b, name) ==
    LET first == firstLevelIndexOffset(w.first, name)
        at == seekToSecondLevelIndexOffset(w, data, first.offset)
    IN IF first.err THEN [kind |-> "err", why |-> "before", buf |-> b, decoded |-> 0]
       ELSE IF at < 0 THEN [kind |-> "err", why |-> "seek", buf |-> b, decoded |-> 0]
       ELSE entryOffsetWalk(data, at, b, Utf16Encode(name), 0)

\* The second-level offset Wiki.entryOffset(name) starts its walk at, -1 when
\* the first-level scan fails.
entryOffsetStart(w, name) ==
    LET first == firstLevelIndexOffset(w.first, name)
    IN IF first.err THEN -1 ELSE first.offset

\* Wiki.readSecondLevelIndex(): the next row as a SearchResult.  A key longer
\* than the scratch buffer makes readString or entryOffsetToUInt64 index out
\* of range.
readSecondLevelIndex(data, pos, b) ==
    LET row == readRow(data, pos, b)
    IN IF row.err THEN [kind |-> "err", buf |-> row.buf, pos |-> row.pos]
       ELSE IF row.numKeyBytes + 5 > BufSize THEN [kind |-> "panic", buf |-> row.buf, pos |-> row.pos]
       ELSE [kind |-> "ok", buf |-> row.buf, pos |-> row.pos,
             result |-> [Key |-> readString(row.buf, row.numKeyBytes),
                         EntryOffset |-> entryOffsetToUInt64(row.buf, row.numKeyBytes)]]

\* The first loop of Wiki.query: the first row that compares >= the prefix.
RECURSIVE querySeek(_, _, _, _)
querySeek(data, pos, b, prefixChars) ==
    LET row == readRow(data, pos, b)
    IN IF row.err THEN [kind |-> "err", buf |-> row.buf, pos |-> row.pos]
       ELSE IF compareTo(row.buf, prefixChars, row.numKeyBytes) >= 0
       THEN IF row.numKeyBytes + 5 > BufSize
            THEN [kind |-> "panic", buf |-> row.buf, pos |-> row.pos]
            ELSE [kind |-> "ok", buf |-> row.buf, pos |-> row.pos,
                  result |-> [Key |-> readString(row.buf, row.numKeyBytes),
                              EntryOffset |-> entryOffsetToUInt64(row.buf, row.numKeyBytes)]]
       ELSE querySeek(data, row.pos, row.buf, prefixChars)

\* The second loop of Wiki.query: collect rows while the key has the prefix
\* and fewer than limit results are held; each pass reads one row more.
RECURSIVE queryCollect(_, _, _, _, _, _)
queryCollect(data, pos, b, prefix, result, results) ==
    IF HasPrefix(result.Key, prefix) /\ Len(results) < QueryLimit
    THEN LET next == readSecondLevelIndex(data, pos, b)
         IN IF next.kind /= "ok" THEN [kind |-> next.kind, why |-> "read", buf |-> next.buf]
            ELSE queryCollect(data, next.pos, next.buf, prefix, next.result, Append(results, result))
    ELSE [kind |-> "ok", results |-> results, buf |-> b]

\* Wiki.query(prefix), prefix not empty.
query(w, data, b, prefix) ==
    LET first == firstLevelIndexOffset(w.first, prefix)
        at == seekToSecondLevelIndexOffset(w, data, first.offset)
    IN IF first.err THEN [kind |-> "err", why |-> "before", buf |-> b]
       ELSE IF at < 0 THEN [kind |-> "err", why |-> "seek", buf |-> b]
       ELSE LET found == querySeek(data, at, b, Utf16Encode(prefix))
            IN IF found.kind /= "ok" THEN [kind |-> found.kind, why |-> "read", buf |-> found.buf]
               ELSE queryCollect(data, found.pos, found.buf, prefix, found.result, <<>>)

\* Wiki.entryAt(offset) read to its end: the inflated payload.  o is the
\* offset as five bytes; past the end of the file the length read fails.
entryAt(data, o) ==
    IF ~IsSmall(o) \/ ValueOf(o) + 3 > Len(data) THEN [kind |-> "err", content |-> <<>>]
    ELSE LET off == ValueOf(o)
             compressedSize == entryLength(Slice(data, off, off + 3))
             limited == Slice(data, off + 3, Min(off + 3 + compressedSize, Len(data)))
             inflated == Inflate(limited)
         IN IF inflated.err \/ Len(limited) < compressedSize THEN [kind |-> "err", content |-> <<>>]
            ELSE [kind |-> "ok", content |-> inflated.content]

(***************************************************************************)
(* The compressor's serial writer (the second loop of writeEntries).       *)
(***************************************************************************)

\* A changed sum: the length prefix is left out.
endOffsetWithoutPrefix(endOffset, sizeBytes) == endOffset + sizeBytes

\* endOffset += uint64(sizeBytes) + 3
nextEndOffset(endOffset, sizeBytes) == endOffset + sizeBytes + 3

\* One pass of the writer's loop over the buffer received for an entry:
\* bufLen is buf.Len(), blob is buf.Bytes(), name is e.Name().  st holds
\* endOffset, the Write calls made so far and writtenEntries.
writeEntry(st, bufLen, blob, name) ==
    LET sizeBytes == U32(bufLen)
        endOffset == nextEndOffset(st.endOffset, sizeBytes)
    IN IF st.panic \/ sizeBytes > 16777216
       THEN [st EXCEPT !.panic = TRUE]
       ELSE [st EXCEPT
               !.endOffset = endOffset,
               !.writes = Append(@, [prefix |-> SubSeq(LE32(sizeBytes), 1, 3),
                                     blob |-> blob, len |-> bufLen]),
               !.writtenEntries = Append(@, [name |-> name, endOffset |-> endOffset])]

writeEntriesStart == [endOffset |-> 0, writes |-> <<>>, writtenEntries |-> <<>>, panic |-> FALSE]

(***************************************************************************)
(* Go strings as sequences of code points, and storage.Entry.              *)
(***************************************************************************)

Slash == <<47>>

PercentTwoF == <<37, 50, 102>>

PrefixA == <<65>> \o Slash

ExceptionsDir == <<95, 101, 120, 99, 101, 112, 116, 105, 111, 110, 115>>

\* The data directory both stages are run on, as filepath.Join leaves it.
DataDir == <<100>>

\* strings.CutPrefix(s, prefix): the rest and whether the prefix was found.
CutPrefix(s, prefix) ==
    IF HasPrefix(s, prefix)
    THEN [rest |-> SubSeq(s, Len(prefix) + 1, Len(s)), found |-> TRUE]
    ELSE [rest |-> s, found |-> FALSE]

\* strings.Replace(s, old, new, -1) for a non-empty old.
RECURSIVE ReplaceAll(_, _, _)
ReplaceAll(s, old, new) ==
    IF s = <<>> THEN <<>>
    ELSE IF HasPrefix(s, old)
         THEN new \o ReplaceAll(SubSeq(s, Len(old) + 1, Len(s)), old, new)
         ELSE <<Head(s)>> \o ReplaceAll(Tail(s), old, new)

\* Entry.Name: the path below the data directory, with %2f turned into /
\* under _exceptions/, less its first two bytes.  The slice panics when
\* fewer than two bytes are left.
EntryName(e) ==
    LET htmlPath == SubSeq(e.LocalPath, e.htmlPathOffset + 1, Len(e.LocalPath))
        cut == CutPrefix(htmlPath, ExceptionsDir \o Slash)
        path == IF cut.found THEN ReplaceAll(cut.rest, PercentTwoF, Slash) ELSE cut.rest
    IN IF Len(path) < Len(PrefixA)
       THEN [panic |-> TRUE, name |-> <<>>]
       ELSE [panic |-> FALSE, name |-> SubSeq(path, Len(PrefixA) + 1, Len(path))]

\* storage.ReadEntries on stage-0-entries.txt with the compressor's data
\* directory, which ends with the path separator.
ReadEntries(localPaths) ==
    [k \in 1..Len(localPaths) |->
        [LocalPath |-> localPaths[k], htmlPathOffset |-> Len(DataDir \o Slash)]]

(***************************************************************************)
(* path/filepath on slash-separated paths.                                 *)
(***************************************************************************)

Dot == <<46>>

DotDot == <<46, 46>>

\* strings.Contains(s, sub)
RECURSIVE Contains(_, _)
Contains(s, sub) ==
    IF HasPrefix(s, sub) THEN TRUE
    ELSE IF s = <<>> THEN FALSE
    ELSE Contains(Tail(s), sub)

\* The elements of a path between its separators.
RECURSIVE SplitPath(_, _)
SplitPath(s, cur) ==
    IF s = <<>> THEN <<cur>>
    ELSE IF <<Head(s)>> = Slash THEN <<cur>> \o SplitPath(Tail(s), <<>>)
    ELSE SplitPath(Tail(s), Append(cur, Head(s)))

\* The elements Clean keeps: no empty element, no ".", and ".." removes
\* the element before it, is dropped at the root, and is kept otherwise.
RECURSIVE CleanElements(_, _, _)
CleanElements(parts, kept, rooted) ==
    IF parts = <<>> THEN kept
    ELSE LET e == Head(parts)
         IN IF e = <<>> \/ e = Dot THEN CleanElements(Tail(parts), kept, rooted)
            ELSE IF e = DotDot
                 THEN IF kept /= <<>> /\ kept[Len(kept)] /= DotDot
                      THEN CleanElements(Tail(parts), SubSeq(kept, 1, Len(kept) - 1), rooted)
                      ELSE IF rooted THEN CleanElements(Tail(parts), kept, rooted)
                      ELSE CleanElements(Tail(parts), Append(kept, e), rooted)
            ELSE CleanElements(Tail(parts), Append(kept, e), rooted)

RECURSIVE JoinElements(_)
JoinElements(parts) ==
    IF parts = <<>> THEN <<>>
    ELSE IF Len(parts) = 1 THEN parts[1]
    ELSE parts[1] \o Slash \o JoinElements(Tail(parts))

\* filepath.Clean
Clean(path) ==
    LET rooted == HasPrefix(path, Slash)
        out == JoinElements(CleanElements(SplitPath(path, <<>>), <<>>, rooted))
    IN IF rooted THEN Slash \o out
       ELSE IF out = <<>> THEN Dot
       ELSE out

\* filepath.Dir: Clean of the path up to and with its last separator.
Dir(path) ==
    LET seps == {k \in 1..Len(path) : <<path[k]>> = Slash}
        i == IF seps = {} THEN 0 ELSE CHOOSE k \in seps : \A l \in seps : l <= k
    IN Clean(SubSeq(path, 1, i))

\* filepath.Join of two elements: empty elements are ignored.
Join(a, b) ==
    IF a = <<>> /\ b = <<>> THEN <<>>
    ELSE IF a = <<>> THEN Clean(b)
    ELSE IF b = <<>> THEN Clean(a)
    ELSE Clean(a \o Slash \o b)

(***************************************************************************)
(* The indexer: readData, processExceptions, createRedirects.  A file of   *)
(* the dump is [name, kind, target]: kind "entry" for a file of 1024 bytes *)
(* or more, "redirect" for a smaller file whose refresh URL unescapes to   *)
(* target, "small" for a smaller file without a refresh URL.               *)
(***************************************************************************)

\* The target of a redirect file under A/ named name, as readData leaves it.
redirectTarget(name, originalTarget) ==
    LET t1 == IF originalTarget = DotDot \/ originalTarget = DotDot \o Slash \o DotDot
              THEN Dir(name) ELSE originalTarget
        t2 == IF HasPrefix(t1, DotDot \o Slash)
              THEN CutPrefix(Join(Dir(name), t1), DotDot \o Slash).rest ELSE t1
    IN IF Contains(name, Slash) /\ ~HasPrefix(originalTarget, DotDot)
       THEN Join(Dir(name), t2) ELSE t2

\* The target of a redirect file under _exceptions/, as processExceptions
\* leaves it.
exceptionTarget(entryName, originalTarget) ==
    LET t1 == IF originalTarget = DotDot \/ originalTarget = DotDot \o Slash \o DotDot
              THEN Dir(entryName)
              ELSE IF originalTarget = Slash THEN entryName \o Slash
              ELSE originalTarget
        t2 == IF HasPrefix(t1, DotDot \o Slash)
              THEN CutPrefix(Join(Dir(entryName), t1), DotDot \o Slash).rest ELSE t1
        t3 == IF Contains(entryName, Slash) /\ ~HasPrefix(originalTarget, DotDot)
              THEN Join(Dir(entryName), t2) ELSE t2
    IN CutPrefix(t3, Slash).rest

\* The walk of readData over the files under A/, in walk order: acc holds
\* entries (local paths), names (the name each entry is registered under),
\* rawRedirects and panic.
RECURSIVE walkFiles(_, _)
walkFiles(files, acc) ==
    IF files = <<>> \/ acc.panic THEN acc
    ELSE LET f == Head(files)
             name == f.name
         IN IF Len(Utf16Encode(name)) > MaxKeyChars THEN walkFiles(Tail(files), acc)
            ELSE IF f.kind = "small" THEN [acc EXCEPT !.panic = TRUE]
            ELSE IF f.kind = "redirect"
                 THEN walkFiles(Tail(files),
                          [acc EXCEPT !.rawRedirects =
                              Append(@, [name |-> name,
                                         entryName |-> redirectTarget(name, f.target)])])
            ELSE walkFiles(Tail(files),
                     [acc EXCEPT
                        !.entries = Append(@, Join(DataDir, <<65>>) \o Slash \o name),
                        !.names = Append(@, name)])

\* processExceptions over the files of _exceptions/, in ReadDir order.
RECURSIVE processExceptions(_, _)
processExceptions(files, acc) ==
    IF files = <<>> \/ acc.panic THEN acc
    ELSE LET f == Head(files)
             fileName == f.name
             localPath == Join(Join(DataDir, ExceptionsDir), fileName)
             entryName == CutPrefix(ReplaceAll(fileName, PercentTwoF, Slash), PrefixA).rest
         IN IF HasPrefix(fileName, <<88>>) THEN processExceptions(Tail(files), acc)
            ELSE IF Len(Utf16Encode(entryName)) > MaxKeyChars
                 THEN processExceptions(Tail(files), acc)
            ELSE IF f.kind = "small" THEN [acc EXCEPT !.panic = TRUE]
            ELSE IF f.kind = "redirect"
                 THEN processExceptions(Tail(files),
                          [acc EXCEPT !.rawRedirects =
                              Append(@, [name |-> entryName,
                                         entryName |-> exceptionTarget(entryName, f.target)])])
            ELSE processExceptions(Tail(files),
                     [acc EXCEPT !.entries = Append(@, localPath),
                                 !.names = Append(@, entryName)])

\* A changed lookup: every name is found, at the first entry.
entryToIDAlwaysFound(names, name) == 0

\* entryToID after every entry was registered: the index (0-based) of the
\* last entry registered under name, or -1.
entryToID(names, name) ==
    LET ks == {k \in 1..Len(names) : names[k] = name}
    IN IF ks = {} THEN -1 ELSE (CHOOSE k \in ks : \A l \in ks : l <= k) - 1

RECURSIVE createRedirects(_, _)
createRedirects(rawRedirects, names) ==
    IF rawRedirects = <<>> THEN <<>>
    ELSE LET r == Head(rawRedirects)
             t == entryToID(names, r.entryName)
         IN (IF t >= 0 THEN <<[name |-> r.name, entryIdx |-> t]>> ELSE <<>>)
            \o createRedirects(Tail(rawRedirects), names)

\* readData on a dump: the entries, the names they are registered under and
\* the resolved redirects, or a panic.
readData(d) ==
    LET walked == walkFiles(d.A, [entries |-> <<>>, names |-> <<>>,
                                  rawRedirects |-> <<>>, panic |-> FALSE])
        all == processExceptions(d.exceptions,
                   [entries |-> <<>>, names |-> <<>>, rawRedirects |-> <<>>,
                    panic |-> walked.panic])
    IN [panic |-> all.panic,
        entries |-> walked.entries \o all.entries,
        names |-> walked.names \o all.names,
        redirects |-> createRedirects(walked.rawRedirects \o all.rawRedirects,
                                      walked.names \o all.names)]

(***************************************************************************)
(* The intermediate files between the stages.                              *)
(***************************************************************************)

\* storage.ReadEntryMetadata on the entry-meta stream written by
\* writeEntryMeta from writtenEntries.
ReadEntryMetadata(writtenEntries) ==
    [namesUTF16 |-> [k \in 1..Len(writtenEntries) |-> Utf16Encode(writtenEntries[k].name)],
     endOffsets |-> [k \in 1..Len(writtenEntries) |-> writtenEntries[k].endOffset]]

\* storage.ReadRedirects on the redirect stream written by writeRedirects.
ReadRedirects(redirects) ==
    [k \in 1..Len(redirects) |->
        [NameUTF16 |-> Utf16Encode(redirects[k].name), EntryIdx |-> redirects[k].entryIdx]]

\* stage-1-entries.dat: the bytes of the writer's Write calls in order.
PackedBytes(writes) == Concat([k \in 1..Len(writes) |-> writes[k].prefix \o writes[k].blob])

(***************************************************************************)
(* State.                                                                  *)
(***************************************************************************)

VARIABLES
    pc,             \* the stage the pipeline or the handle is in
    dump,           \* the dump directory: the files under A/ and _exceptions/
    entries,        \* stage-0-entries.txt: the local path of each entry
    contents,       \* the original bytes of each entry's file, in entry order
    writtenEntries, \* stage-1-entry-meta.txt: name and end offset per entry
    redirects,      \* stage-0-redirects.txt: name and entry index per redirect
    payload,        \* stage-1-entries.dat
    file,           \* the archive written by the builder
    index,          \* what writeSecondLevel returned and wrote, row by row
    wiki,           \* the reader's handle: first, secondLevelIndexOffsetFromEnd, buf
    res,            \* what the last reader operation returned
    ops,            \* reader operations run on the handle
    tokens,         \* writeEntries: the tokens channel, its capacity and its length
    results,        \* writeEntries: the one-slot channel of each entry
    bufPool,        \* the buffers allocated so far and the ones in the pool
    workers,        \* writeEntries: the goroutine compressing each entry
    producer,       \* writeEntries: the goroutine that spawns the workers
    writer,         \* writeEntries: the loop that writes the results in order
    sendOrder       \* the order in which the workers sent their results

compressorVars == <<tokens, results, bufPool, workers, producer, writer, sendOrder>>

pipelineVars == <<contents, writtenEntries, redirects, payload, file, index, wiki, res, ops>>

vars == <<pc, dump, entries, pipelineVars, compressorVars>>

NoValue == [op |-> "none", kind |-> "none", arg |-> <<>>]

\* No writeEntries is running.
CompressorIdle ==
    /\ tokens = [cap |-> 0, len |-> 0]
    /\ results = <<>>
    /\ bufPool = [bufs |-> <<>>, pooled |-> {}]
    /\ workers = <<>>
    /\ producer = NoValue
    /\ writer = NoValue
    /\ sendOrder = <<>>

(***************************************************************************)
(* Inputs of the builder: what the indexer and the compressor leave.       *)
(***************************************************************************)

\* Names of entries and redirects, as Go strings.
Names ==
    {<<1>>, <<1, 1, 1, 1>>, <<1, 1, 1, 1, 1>>, <<1, 1, 1, 1, 2>>,
     <<1, 1, 1, 2>>, <<2, 1, 1, 1, 1>>,
     <<98, 97, 110>>, <<98, 97, 110, 97, 110, 97>>}

\* The file content of the entry at position i (1-based) of the entry list.
ContentOf(i) == [j \in 1..i |-> 64 + i]

RECURSIVE writeEntriesLoop(_, _, _, _)
writeEntriesLoop(st, names, conts, k) ==
    IF k > Len(names) THEN st
    ELSE writeEntriesLoop(writeEntry(st, Len(Deflate(conts[k])), Deflate(conts[k]), names[k]),
                          names, conts, k + 1)

\* The elements of a set of names in ascending order of their code units.
RECURSIVE SetToSeq(_)
SetToSeq(S) ==
    IF S = {} THEN <<>>
    ELSE LET x == CHOOSE y \in S : \A z \in S : Compare(y, z) <= 0
         IN <<x>> \o SetToSeq(S \ {x})

Reverse(q) == [k \in 1..Len(q) |-> q[Len(q) + 1 - k]]

\* The builder's inputs over a set S of names: every name an entry, listed
\* from the last to the first; or the last name the only entry and every
\* other name a redirect to it; or the first and the last name the entries
\* and the other names redirects to them in turn.
InputsOver(S) ==
    LET asc == SetToSeq(S)
        n == Len(asc)
        inner == SubSeq(asc, 2, n - 1)
    IN {[entryNames |-> Reverse(asc), redirects |-> <<>>],
        [entryNames |-> <<asc[n]>>,
         redirects |-> [k \in 1..(n - 1) |-> [name |-> asc[k], entryIdx |-> 0]]]}
       \cup (IF n < 2 THEN {}
             ELSE {[entryNames |-> <<asc[1], asc[n]>>,
                    redirects |-> [k \in 1..(n - 2) |-> [name |-> inner[k], entryIdx |-> k % 2]]]})

BuilderInputs ==
    UNION {InputsOver(S) : S \in {T \in SUBSET Names : T /= {} /\ Cardinality(T) <= MaxRows}}

\* Names looked up and prefixes searched for.
Probes ==
    Names \cup {<<1, 1>>, <<2>>, <<3>>, <<1, 1, 1, 1>> \o Zeros(15)}

(***************************************************************************)
(* The builder and the reader.                                             *)
(***************************************************************************)

InitFrom(inputs) ==
    \E in \in inputs :
        LET conts == [k \in 1..Len(in.entryNames) |-> ContentOf(k)]
            st == writeEntriesLoop(writeEntriesStart, in.entryNames, conts, 1)
        IN /\ pc = "input"
           /\ dump = NoValue
           /\ entries = [k \in 1..Len(in.entryNames) |->
                            DataDir \o Slash \o PrefixA \o in.entryNames[k]]
           /\ CompressorIdle
           /\ contents = conts
           /\ writtenEntries = st.writtenEntries
           /\ redirects = in.redirects
           /\ payload = PackedBytes(st.writes)
           /\ file = <<>>
           /\ index = NoValue
           /\ wiki = NoValue
           /\ res = NoValue
           /\ ops = 0

Init == InitFrom(BuilderInputs)

\* main of the builder: copy the packed entries, sort the rows, write the
\* second-level index, then the first-level index.
BuildArchive ==
    /\ pc = "input"
    /\ \E rows \in createSecondLevelIndex(ReadEntryMetadata(writtenEntries), ReadRedirects(redirects)) :
         LET second == writeSecondLevel(rows)
         IN IF second.panic
            THEN /\ pc' = "panic"
                 /\ UNCHANGED <<file, index>>
            ELSE /\ pc' = "built"
                 /\ file' = payload \o second.out \o writeFirstLevel(second)
                 /\ index' = [kind |-> "index", rows |-> rows, written |-> second.written,
                              keys |-> second.keys, offsets |-> second.offsets,
                              secondLevel |-> second.out]
    /\ UNCHANGED <<contents, writtenEntries, redirects, payload, wiki, res, ops>>
    /\ UNCHANGED <<dump, entries, compressorVars>>

\* OpenWiki on the archive.
Open ==
    /\ pc = "built"
    /\ LET w == OpenWiki(file)
       IN IF w.err
          THEN pc' = "openerr" /\ UNCHANGED wiki
          ELSE pc' = "open" /\ wiki' = w
    /\ UNCHANGED <<contents, writtenEntries, redirects, payload, file, index, res, ops>>
    /\ UNCHANGED <<dump, entries, compressorVars>>

\* Wiki.entryOffset(name).
LookupEntry ==
    /\ pc = "open"
    /\ ops < MaxOps
    /\ \E name \in Probes :
         LET r == entryOffset(wiki, file, wiki.buf, name)
         IN /\ res' = IF r.kind = "ok"
                      THEN [op |-> "entryOffset", arg |-> name, kind |-> "ok",
                            offset |-> r.offset, decoded |-> r.decoded,
                            start |-> entryOffsetStart(wiki, name)]
                      ELSE [op |-> "entryOffset", arg |-> name, kind |-> r.kind,
                            why |-> r.why, decoded |-> r.decoded,
                            start |-> entryOffsetStart(wiki, name)]
            /\ wiki' = [wiki EXCEPT !.buf = r.buf]
    /\ ops' = ops + 1
    /\ UNCHANGED <<pc, contents, writtenEntries, redirects, payload, file, index>>
    /\ UNCHANGED <<dump, entries, compressorVars>>

\* Wiki.query(prefix).
Search ==
    /\ pc = "open"
    /\ ops < MaxOps
    /\ \E prefix \in Probes :
         LET r == query(wiki, file, wiki.buf, prefix)
         IN /\ res' = IF r.kind = "ok"
                      THEN [op |-> "query", arg |-> prefix, kind |-> "ok", results |-> r.results]
                      ELSE [op |-> "query", arg |-> prefix, kind |-> r.kind, why |-> r.why]
            /\ wiki' = [wiki EXCEPT !.buf = r.buf]
    /\ ops' = ops + 1
    /\ UNCHANGED <<pc, contents, writtenEntries, redirects, payload, file, index>>
    /\ UNCHANGED <<dump, entries, compressorVars>>

\* Wiki.entryAt(offset) on the offset entryOffset returned, read to the end.
ReadEntry ==
    /\ pc = "open"
    /\ res.kind = "ok"
    /\ res.op = "entryOffset"
    /\ LET r == entryAt(file, res.offset)
       IN res' = [op |-> "entryAt", arg |-> res.arg, offset |-> res.offset,
                  kind |-> r.kind, content |-> r.content]
    /\ UNCHANGED <<pc, contents, writtenEntries, redirects, payload, file, index, wiki, ops>>
    /\ UNCHANGED <<dump, entries, compressorVars>>

Next == BuildArchive \/ Open \/ LookupEntry \/ Search \/ ReadEntry

Spec == Init /\ [][Next]_vars

\* The builder followed by OpenWiki, without reader operations.
NextBuild == BuildArchive \/ Open

SpecBuild == Init /\ [][NextBuild]_vars

(***************************************************************************)
(* writeEntries of the compressor: the producer goroutine, one worker      *)
(* goroutine per entry, and the loop that writes the results.              *)
(***************************************************************************)

MaxEntries == 3

MaxWidth == 2

\* The local path of entry k in stage-0-entries.txt, the third one under
\* _exceptions/.
CompressPath(k) ==
    IF k = 3
    THEN DataDir \o Slash \o ExceptionsDir \o Slash \o <<65>> \o PercentTwoF \o <<97>>
             \o PercentTwoF \o <<98>>
    ELSE DataDir \o Slash \o PrefixA \o <<96 + k>>

\* buf.Len() of a compressed entry: small, and around the 24-bit limit.
CompressedSizes == {3, 16777215, 16777216, 16777217}

\* A bytes.Buffer after Reset.
EmptyBuffer == [path |-> <<>>, len |-> 0]

InitCompress ==
    \E n \in 0..MaxEntries, w \in 1..MaxWidth :
        /\ pc = "compress"
        /\ dump = NoValue
        /\ entries = [k \in 1..n |-> CompressPath(k)]
        /\ contents = <<>>
        /\ writtenEntries = <<>>
        /\ redirects = <<>>
        /\ payload = <<>>
        /\ file = <<>>
        /\ index = NoValue
        /\ wiki = NoValue
        /\ res = NoValue
        /\ ops = 0
        /\ tokens = [cap |-> w, len |-> w]
        /\ results = [k \in 1..n |-> <<>>]
        /\ bufPool = [bufs |-> <<>>, pooled |-> {}]
        /\ workers = [k \in 1..n |-> [pc |-> "unborn", buf |-> 0, made |-> EmptyBuffer]]
        /\ producer = [pc |-> IF n = 0 THEN "done" ELSE "acquire", i |-> 1]
        /\ writer = [pc |-> IF n = 0 THEN "return" ELSE "recv", i |-> 1, buf |-> 0,
                     st |-> writeEntriesStart]
        /\ sendOrder = <<>>

\* A changed receive on tokens: it never blocks.
receiveNeverBlocks(ch) == TRUE

\* <-tokens can proceed: a receive blocks while the channel is empty.
canReceive(ch) == ch.len > 0

\* The producer's <-tokens.
ProducerAcquire ==
    /\ pc = "compress"
    /\ producer.pc = "acquire"
    /\ canReceive(tokens)
    /\ tokens' = [tokens EXCEPT !.len = @ - 1]
    /\ producer' = [producer EXCEPT !.pc = "go"]
    /\ UNCHANGED <<pc, dump, entries, pipelineVars,
                   results, bufPool, workers, writer, sendOrder>>

\* The producer's go statement for entry producer.i, and the loop's step.
ProducerSpawn ==
    /\ pc = "compress"
    /\ producer.pc = "go"
    /\ workers' = [workers EXCEPT ![producer.i].pc = "get"]
    /\ producer' = [pc |-> IF producer.i = Len(entries) THEN "done" ELSE "acquire",
                    i |-> producer.i + 1]
    /\ UNCHANGED <<pc, dump, entries, pipelineVars,
                   tokens, results, bufPool, writer, sendOrder>>

\* compress, first half: bufPool.Get hands out a pooled buffer or a new
\* one, and the worker resets it.
WorkerGet ==
    /\ pc = "compress"
    /\ \E idx \in 1..Len(workers) :
         /\ workers[idx].pc = "get"
         /\ \E b \in bufPool.pooled \cup {Len(bufPool.bufs) + 1} :
              /\ bufPool' = [bufs |-> IF b > Len(bufPool.bufs)
                                     THEN Append(bufPool.bufs, EmptyBuffer)
                                     ELSE [bufPool.bufs EXCEPT ![b] = EmptyBuffer],
                             pooled |-> bufPool.pooled \ {b}]
              /\ workers' = [workers EXCEPT ![idx].pc = "copy", ![idx].buf = b]
    /\ UNCHANGED <<pc, dump, entries, pipelineVars,
                   tokens, results, producer, writer, sendOrder>>

\* compress, second half: the file is read and deflated into the buffer.
WorkerCopy ==
    /\ pc = "compress"
    /\ \E idx \in 1..Len(workers), size \in CompressedSizes :
         /\ workers[idx].pc = "copy"
         /\ LET blob == [path |-> entries[idx], len |-> size]
            IN /\ bufPool' = [bufPool EXCEPT !.bufs[workers[idx].buf] = blob]
               /\ workers' = [workers EXCEPT ![idx].pc = "send", ![idx].made = blob]
    /\ UNCHANGED <<pc, dump, entries, pipelineVars,
                   tokens, results, producer, writer, sendOrder>>

\* compress panics: the file cannot be opened or read.
WorkerPanic ==
    /\ pc = "compress"
    /\ \E idx \in 1..Len(workers) : workers[idx].pc = "copy"
    /\ pc' = "panic"
    /\ UNCHANGED <<dump, entries, pipelineVars, compressorVars>>

\* results[idx] <- buf, on a channel of capacity 1.
WorkerSend ==
    /\ pc = "compress"
    /\ \E idx \in 1..Len(workers) :
         /\ workers[idx].pc = "send"
         /\ results[idx] = <<>>
         /\ results' = [results EXCEPT ![idx] = <<workers[idx].buf>>]
         /\ workers' = [workers EXCEPT ![idx].pc = "done"]
         /\ sendOrder' = Append(sendOrder, idx)
    /\ UNCHANGED <<pc, dump, entries, pipelineVars,
                   tokens, bufPool, producer, writer>>

\* A changed receive: the lowest channel that holds a result.
firstReadyChannel(chans, i) ==
    IF \E k \in 1..Len(chans) : chans[k] /= <<>>
    THEN CHOOSE k \in 1..Len(chans) :
             chans[k] /= <<>> /\ \A l \in 1..(k - 1) : chans[l] = <<>>
    ELSE i

\* The channel the writer receives from in pass i of its loop: results[i].
writerChannel(chans, i) == i

\* buf := <-results[i]
WriterReceive ==
    /\ pc = "compress"
    /\ writer.pc = "recv"
    /\ LET c == writerChannel(results, writer.i)
       IN /\ results[c] /= <<>>
          /\ writer' = [writer EXCEPT !.pc = "release", !.buf = results[c][1]]
          /\ results' = [results EXCEPT ![c] = <<>>]
    /\ UNCHANGED <<pc, dump, entries, pipelineVars,
                   tokens, bufPool, workers, producer, sendOrder>>

\* A changed writer: it keeps the token of the entry it received.
keepToken(ch) == ch

\* The send on tokens: one more token is in the channel.
releaseToken(ch) == [ch EXCEPT !.len = @ + 1]

\* tokens <- struct{}{}
WriterRelease ==
    /\ pc = "compress"
    /\ writer.pc = "release"
    /\ tokens.len < tokens.cap
    /\ tokens' = releaseToken(tokens)
    /\ writer' = [writer EXCEPT !.pc = "write"]
    /\ UNCHANGED <<pc, dump, entries, pipelineVars,
                   results, bufPool, workers, producer, sendOrder>>

\* The size check and the two Write calls, on what the buffer holds now.
WriterWrite ==
    /\ pc = "compress"
    /\ writer.pc = "write"
    /\ LET buf == bufPool.bufs[writer.buf]
           e == ReadEntries(entries)[writer.i]
           st == writeEntry(writer.st, buf.len, buf, EntryName(e).name)
       IN IF st.panic
          THEN pc' = "panic" /\ UNCHANGED writer
          ELSE pc' = pc /\ writer' = [writer EXCEPT !.pc = "put", !.st = st]
    /\ UNCHANGED <<dump, entries, pipelineVars,
                   tokens, results, bufPool, workers, producer, sendOrder>>

\* bufPool.Put(buf), writtenEntries[i] = writtenEntry{e.Name(), endOffset},
\* and the loop's step.
WriterPut ==
    /\ pc = "compress"
    /\ writer.pc = "put"
    /\ bufPool' = [bufPool EXCEPT !.pooled = @ \cup {writer.buf}]
    /\ IF EntryName(ReadEntries(entries)[writer.i]).panic
       THEN pc' = "panic" /\ UNCHANGED writer
       ELSE /\ pc' = pc
            /\ writer' = [writer EXCEPT
                            !.pc = IF writer.i = Len(entries) THEN "return" ELSE "recv",
                            !.i = @ + 1, !.buf = 0]
    /\ UNCHANGED <<dump, entries, pipelineVars,
                   tokens, results, workers, producer, sendOrder>>

\* main after writeEntries returned: writeEntryMeta on writtenEntries.
WriteEntryMeta ==
    /\ pc = "compress"
    /\ writer.pc = "return"
    /\ pc' = "compressed"
    /\ writtenEntries' = writer.st.writtenEntries
    /\ UNCHANGED <<dump, entries, contents, redirects, payload, file, index, wiki, res, ops,
                   compressorVars>>

NextCompress ==
    \/ ProducerAcquire \/ ProducerSpawn
    \/ WorkerGet \/ WorkerCopy \/ WorkerPanic \/ WorkerSend
    \/ WriterReceive \/ WriterRelease \/ WriterWrite \/ WriterPut
    \/ WriteEntryMeta

SpecCompress == InitCompress /\ [][NextCompress]_vars

\* writeEntries when every worker's read and compression finish: compress
\* never panics.  The scheduler runs every goroutine that can take a step,
\* so the producer, the workers and the writer (the main goroutine) are
\* each weakly fair.
NextProgress ==
    \/ ProducerAcquire \/ ProducerSpawn
    \/ WorkerGet \/ WorkerCopy \/ WorkerSend
    \/ WriterReceive \/ WriterRelease \/ WriterWrite \/ WriterPut
    \/ WriteEntryMeta

SpecProgress ==
    /\ InitCompress
    /\ [][NextProgress]_vars
    /\ WF_vars(ProducerAcquire) /\ WF_vars(ProducerSpawn)
    /\ WF_vars(WorkerGet) /\ WF_vars(WorkerCopy) /\ WF_vars(WorkerSend)
    /\ WF_vars(WriterReceive) /\ WF_vars(WriterRelease)
    /\ WF_vars(WriterWrite) /\ WF_vars(WriterPut)
    /\ WF_vars(WriteEntryMeta)

(***************************************************************************)
(* The three stages run one after the other on a dump.                     *)
(***************************************************************************)

MaxDumpFiles == 3

\* A name of more than 127 UTF-16 code units.
LongName == [k \in 1..(MaxKeyChars + 1) |-> 122]

\* Files under A/: "a", "Q/r" and the long name.
DumpFilesA ==
    {[name |-> <<97>>, kind |-> "entry", target |-> <<>>],
     [name |-> <<97>>, kind |-> "redirect", target |-> <<81, 47, 114>>],
     [name |-> <<97>>, kind |-> "small", target |-> <<>>],
     [name |-> <<81, 47, 114>>, kind |-> "entry", target |-> <<>>],
     [name |-> <<81, 47, 114>>, kind |-> "redirect", target |-> DotDot \o Slash \o <<97>>],
     [name |-> <<81, 47, 114>>, kind |-> "redirect", target |-> DotDot],
     [name |-> LongName, kind |-> "entry", target |-> <<>>]}

\* Files under _exceptions/: "A%2fQ%2fr", "Q%2fr", "A%2fa", "b" and "Xa".
DumpFilesExceptions ==
    {[name |-> <<65>> \o PercentTwoF \o <<81>> \o PercentTwoF \o <<114>>,
      kind |-> "entry", target |-> <<>>],
     [name |-> <<65>> \o PercentTwoF \o <<81>> \o PercentTwoF \o <<114>>,
      kind |-> "redirect", target |-> <<97>>],
     [name |-> <<81>> \o PercentTwoF \o <<114>>, kind |-> "entry", target |-> <<>>],
     [name |-> <<65>> \o PercentTwoF \o <<97>>, kind |-> "entry", target |-> <<>>],
     [name |-> <<65>> \o PercentTwoF \o <<97>>, kind |-> "redirect", target |-> Slash],
     [name |-> <<98>>, kind |-> "entry", target |-> <<>>],
     [name |-> <<88, 97>>, kind |-> "entry", target |-> <<>>]}

\* The files of a directory listing in the order of their names.
RECURSIVE SortFiles(_)
SortFiles(S) ==
    IF S = {} THEN <<>>
    ELSE LET x == CHOOSE y \in S : \A z \in S : Compare(y.name, z.name) <= 0
         IN <<x>> \o SortFiles(S \ {x})

\* No two files of a directory have the same name.
DistinctNames(S) == \A x \in S, y \in S : x.name = y.name => x = y

Dumps ==
    {[A |-> SortFiles(X), exceptions |-> SortFiles(Y)] :
        X \in {T \in SUBSET DumpFilesA : DistinctNames(T)},
        Y \in {T \in SUBSET DumpFilesExceptions :
                  DistinctNames(T) /\ Cardinality(T) <= MaxDumpFiles}}

InitDump ==
    /\ pc = "dump"
    /\ dump \in {d \in Dumps : Len(d.A) + Len(d.exceptions) <= MaxDumpFiles}
    /\ entries = <<>>
    /\ contents = <<>>
    /\ writtenEntries = <<>>
    /\ redirects = <<>>
    /\ payload = <<>>
    /\ file = <<>>
    /\ index = NoValue
    /\ wiki = NoValue
    /\ res = NoValue
    /\ ops = 0
    /\ CompressorIdle

\* main of the indexer: readData, writeEntries, writeRedirects.
IndexDump ==
    /\ pc = "dump"
    /\ LET data == readData(dump)
       IN IF data.panic
          THEN pc' = "panic" /\ UNCHANGED <<entries, redirects>>
          ELSE pc' = "indexed" /\ entries' = data.entries /\ redirects' = data.redirects
    /\ UNCHANGED <<dump, contents, writtenEntries, payload, file, index, wiki, res, ops,
                   compressorVars>>

\* main of the compressor: ReadEntries, writeEntries in entry order,
\* writeEntryMeta.
CompressEntries ==
    /\ pc = "indexed"
    /\ LET es == ReadEntries(entries)
           conts == [k \in 1..Len(es) |-> ContentOf(k)]
           names == [k \in 1..Len(es) |-> EntryName(es[k]).name]
           st == writeEntriesLoop(writeEntriesStart, names, conts, 1)
       IN IF st.panic \/ \E k \in 1..Len(es) : EntryName(es[k]).panic
          THEN pc' = "panic" /\ UNCHANGED <<contents, writtenEntries, payload>>
          ELSE /\ pc' = "input"
               /\ contents' = conts
               /\ writtenEntries' = st.writtenEntries
               /\ payload' = PackedBytes(st.writes)
    /\ UNCHANGED <<dump, entries, redirects, file, index, wiki, res, ops, compressorVars>>

NextPipeline == IndexDump \/ CompressEntries \/ BuildArchive \/ Open

SpecPipeline == InitDump /\ [][NextPipeline]_vars

(***************************************************************************)
(* The end of an archive with many first-level rows: the builder after the *)
(* row loop of writeSecondLevel, holding a first-level index of n rows and *)
(* totalSize bytes of second-level rows.  The file is held from the size   *)
(* field of the second-level index to its end.                             *)
(***************************************************************************)

MaxTailRows == 20

\* Numbers of first-level rows around the one whose size no longer fits
\* the 16-bit size field.
LargeTailRows == {5461, 5462, 5463}

\* Bytes of second-level rows per first-level row: blocks of one short row
\* and blocks of 1024 of them.
TailBlockBytes == {9, 9216}

\* The k-th key of a first-level index of increasing keys.
TailKey(k) == <<1 + (k \div 256), k % 256, 0, 0>>

InitTail ==
    \E n \in (1..MaxTailRows) \cup LargeTailRows, blockBytes \in TailBlockBytes :
        /\ pc = "rows written"
        /\ index = [kind |-> "tail",
                    keys |-> [k \in 1..n |-> TailKey(k)],
                    offsets |-> [k \in 1..n |-> (k - 1) * blockBytes],
                    totalSize |-> n * blockBytes]
        /\ dump = NoValue
        /\ entries = <<>>
        /\ contents = <<>>
        /\ writtenEntries = <<>>
        /\ redirects = <<>>
        /\ payload = <<>>
        /\ file = <<>>
        /\ wiki = NoValue
        /\ res = NoValue
        /\ ops = 0
        /\ CompressorIdle

\* The size field writeSecondLevel ends with, then writeFirstLevel.
WriteTail ==
    /\ pc = "rows written"
    /\ pc' = "tail written"
    /\ file' = writeSecondLevelSize(index.totalSize) \o writeFirstLevel(index)
    /\ UNCHANGED <<dump, entries, contents, writtenEntries, redirects, payload, index,
                   wiki, res, ops, compressorVars>>

\* OpenWiki on the archive.
OpenTail ==
    /\ pc = "tail written"
    /\ pc' = "tail open"
    /\ wiki' = OpenWiki(file)
    /\ UNCHANGED <<dump, entries, contents, writtenEntries, redirects, payload, file,
                   index, res, ops, compressorVars>>

NextTail == WriteTail \/ OpenTail

SpecTail == InitTail /\ [][NextTail]_vars

\* The compressor's writeEntries, and the builder on what a compressor run
\* left.
InitOffsets == Init \/ InitCompress

NextOffsets == NextBuild \/ NextCompress

SpecOffsets == InitOffsets /\ [][NextOffsets]_vars

(***************************************************************************)
(* A reader walk over archives with long keys, one row per step: the seek  *)
(* to a first-level offset, then the header and row reads every walk of    *)
(* the reader makes (entryOffset, query, readSecondLevelIndex).            *)
(***************************************************************************)

\* The name of n code units "z".
LongKey(n) == [k \in 1..n |-> 122]

\* Names of 1, 2 and 125 to 127 code units, and one that shares none.
DecodeNames ==
    {<<1>>, LongKey(1), LongKey(2), LongKey(MaxKeyChars - 2), LongKey(MaxKeyChars - 1),
     LongKey(MaxKeyChars)}

DecodeInputs ==
    UNION {InputsOver(S) : S \in {T \in SUBSET DecodeNames : T /= {} /\ Cardinality(T) < MaxRows}}

InitDecode == InitFrom(DecodeInputs)

\* The file position one past the last second-level row.
EndOfRows == Len(payload) + Len(index.secondLevel) - 4

\* The seek of a walk that starts at first-level offset 0.
WalkStart ==
    /\ pc = "open"
    /\ res = NoValue
    /\ res' = [op |-> "walk", kind |-> "seek", arg |-> <<>>, from |-> -1,
               pos |-> seekToSecondLevelIndexOffset(wiki, file, 0)]
    /\ UNCHANGED <<pc, dump, entries, contents, writtenEntries, redirects, payload, file,
                   index, wiki, ops, compressorVars>>

\* One pass of the walk's loop: the header read and the row read.
WalkRow ==
    /\ pc = "open"
    /\ res.op = "walk"
    /\ res.kind /= "err"
    /\ res.pos >= 0
    /\ res.pos < EndOfRows
    /\ LET row == readRow(file, res.pos, wiki.buf)
       IN /\ res' = [op |-> "walk", kind |-> IF row.err THEN "err" ELSE "row", arg |-> <<>>,
                     from |-> res.pos, pos |-> row.pos]
          /\ wiki' = [wiki EXCEPT !.buf = row.buf]
    /\ UNCHANGED <<pc, dump, entries, contents, writtenEntries, redirects, payload, file,
                   index, ops, compressorVars>>

NextDecode == BuildArchive \/ Open \/ WalkStart \/ WalkRow

SpecDecode == InitDecode /\ [][NextDecode]_vars

(***************************************************************************)
(* What the archive holds, for the properties below.                       *)
(***************************************************************************)

Archived == pc \in {"built", "open", "openerr"}

\* The names of the second-level rows, as Go strings.
KeyNames == {Utf16Decode(index.rows[k].nameUTF16) : k \in 1..Len(index.rows)}

\* The start offset of entry i (1-based) in the packed payload.
StartOf(i) == StartOffset(ReadEntryMetadata(writtenEntries), i - 1)

\* The rows in index order whose key begins with prefix.
RECURSIVE MatchingRows(_, _)
MatchingRows(rows, prefix) ==
    IF rows = <<>> THEN <<>>
    ELSE (IF HasPrefix(Utf16Decode(Head(rows).nameUTF16), prefix)
          THEN <<[Key |-> Utf16Decode(Head(rows).nameUTF16),
                  EntryOffset |-> appendOffset(Head(rows).offset)]>>
          ELSE <<>>) \o MatchingRows(Tail(rows), prefix)

(***************************************************************************)
(* Properties.                                                             *)
(***************************************************************************)

\* C1 (round trip): looking up the name of any entry returns the offset at
\* which that entry's length prefix starts in the payload, and the payload
\* read at the offset returned inflates to the entry's original bytes.
C1_RoundTrip ==
    pc = "open" =>
        \A i \in 1..Len(writtenEntries) :
            res.arg = writtenEntries[i].name =>
                /\ res.op = "entryOffset" =>
                       res.kind = "ok" /\ res.offset = appendOffset(StartOf(i))
                /\ res.op = "entryAt" =>
                       res.kind = "ok" /\ res.content = contents[i]

\* C2 (redirect fidelity): looking up the source of a resolved redirect, or
\* the entry it targets, succeeds with the start offset of the target entry,
\* so both lookups return the same offset (0 for "ban" -> "banana").
C2_RedirectFidelity ==
    (pc = "open" /\ res.op = "entryOffset") =>
        \A k \in 1..Len(redirects) :
            LET target == redirects[k].entryIdx + 1
            IN res.arg \in {redirects[k].name, writtenEntries[target].name} =>
                   res.kind = "ok" /\ res.offset = appendOffset(StartOf(target))

\* C4 (prefix search bound): a result list has at most 32 items, every key
\* in it begins with the prefix and is the key of a second-level row, and
\* the keys are strictly increasing.
C4_PrefixSearchBound ==
    (pc = "open" /\ res.op = "query" /\ res.kind = "ok") =>
        /\ Len(res.results) <= QueryLimit
        /\ \A k \in 1..Len(res.results) :
               /\ HasPrefix(res.results[k].Key, res.arg)
               /\ res.results[k].Key \in KeyNames
        /\ \A k \in 1..(Len(res.results) - 1) :
               Compare(Utf16Encode(res.results[k].Key), Utf16Encode(res.results[k + 1].Key)) < 0

\* C5 (prefix search completeness): when m >= 1 rows have a key that begins
\* with the prefix, a prefix search returns exactly the first min(32, m) of
\* them, in index order.
C5_PrefixSearchComplete ==
    (pc = "open" /\ res.op = "query") =>
        LET all == MatchingRows(index.rows, res.arg)
        IN all /= <<>> =>
               res.kind = "ok" /\ res.results = SubSeq(all, 1, Min(QueryLimit, Len(all)))

\* C6 (lookup miss): looking up a name that is no key of the archive fails
\* and returns no payload offset.
C6_LookupMiss ==
    (pc = "open" /\ res.op = "entryOffset" /\ res.arg \notin KeyNames) => res.kind = "err"

\* The rows (1-based) whose first four code units, zero-padded, equal key.
RowsWithFirstLevelKey(key) ==
    {k \in 1..Len(index.written) : newFirstLevelIndexKey(index.written[k].key) = key}

\* The byte position, from the start of the second-level region, of the
\* first row whose key is the UTF-16 form of name.
PosOf(name) ==
    LET ks == {k \in 1..Len(index.written) : index.written[k].key = Utf16Encode(name)}
    IN index.written[CHOOSE k \in ks : \A l \in ks : k <= l].pos

\* C9 (first-level offset invariant): the offset of every first-level row is
\* the byte position of the first second-level row whose first four code
\* units, zero-padded, equal the first-level key; no earlier row has them.
C9_FirstLevelOffsets ==
    Archived =>
        \A j \in 1..Len(index.keys) :
            LET ks == RowsWithFirstLevelKey(index.keys[j])
            IN /\ ks /= {}
               /\ \A k \in ks :
                      IF \A l \in ks : k <= l
                      THEN index.written[k].pos = index.offsets[j]
                      ELSE index.written[k].pos > index.offsets[j]

\* A first-level row other than the first was written.
C9_Witness == Archived /\ Len(index.keys) >= 2

\* C10 (first-level routing): for a key of the archive the first-level scan
\* succeeds with an offset at or before the key's row, and the walk from
\* there reaches the row after decoding at most RowsPerJump rows.
C10_FirstLevelRouting ==
    (pc = "open" /\ res.op = "entryOffset" /\ res.arg \in KeyNames) =>
        /\ res.start >= 0
        /\ res.start <= PosOf(res.arg)
        /\ res.kind = "ok"
        /\ res.decoded <= RowsPerJump

\* The Write calls the writer has made on stage-1-entries.dat, one record
\* per entry: the 3-byte prefix and the buffer written after it.
Written == writer.st.writes

\* The value of a 3-byte little-endian length prefix.
PrefixValue(prefix) == prefix[1] + 256 * prefix[2] + 65536 * prefix[3]

\* C3 (compressor order preservation): in every state of writeEntries, for
\* every width and interleaving, the k-th length-prefixed blob written is
\* the buffer the worker of entry k compressed from entry k's file, and the
\* k-th written entry carries entry k's name.
C3_OrderPreserved ==
    pc \in {"compress", "compressed", "panic"} =>
        /\ Len(Written) <= Len(entries)
        /\ \A k \in 1..Len(Written) :
               /\ Written[k].blob = workers[k].made
               /\ Written[k].blob.path = entries[k]
               /\ writer.st.writtenEntries[k].name = EntryName(ReadEntries(entries)[k]).name

\* Every entry was written although a later worker sent its result first.
C3_Witness ==
    /\ pc = "compressed"
    /\ Len(Written) >= 2
    /\ sendOrder[1] /= 1

\* C8 (compressed size limit): no buffer longer than 2^24 - 1 bytes is
\* written, and every 3-byte prefix written equals the length of the blob
\* written after it.
C8_SizeLimit ==
    pc \in {"compress", "compressed", "panic"} =>
        \A k \in 1..Len(Written) :
            /\ Written[k].len <= 16777215
            /\ PrefixValue(Written[k].prefix) = Written[k].len

\* C7 (sort order): in the archive built from the entries and the resolved
\* redirects the earlier stages leave for any dump, the key of every
\* second-level row is strictly less than the key of the row after it.
C7_StrictlySorted ==
    Archived =>
        \A k \in 1..(Len(index.rows) - 1) :
            Compare(index.rows[k].nameUTF16, index.rows[k + 1].nameUTF16) < 0

\* C11 (trailer arithmetic): in an archive with n first-level rows and B
\* bytes of second-level rows the last two bytes decode to 12 * n + 2, the
\* u32 found 12 * n + 2 + 4 bytes before the end decodes to B + 4, and
\* OpenWiki recovers n first-level rows and the distance from the end of
\* the file to the start of the second-level rows.
C11_TrailerArithmetic ==
    pc = "tail open" =>
        LET n == Len(index.keys)
            B == index.totalSize
        IN /\ Uint16At(file, Len(file) - 2) = 12 * n + 2
           /\ Uint32At(file, Len(file) - (12 * n + 2) - 4) = B + 4
           /\ ~wiki.err
           /\ Len(wiki.first.offsets) = n
           /\ wiki.first.offsets = index.offsets
           /\ wiki.secondLevelIndexOffsetFromEnd = (12 * n + 2) + 4 + B

\* The entries (1-based) the indexer took from _exceptions/.
ExceptionEntries ==
    {k \in 1..Len(entries) : HasPrefix(entries[k], Join(DataDir, ExceptionsDir) \o Slash)}

\* C12 (cross-stage name agreement for exceptions): the name under which
\* the indexer registers an entry taken from _exceptions/ is the name
\* Entry.Name derives from its local path, and the name the compressor
\* writes to the entry-meta stream.
C12_ExceptionNamesAgree ==
    pc \in {"indexed", "input", "built", "open"} =>
        \A k \in ExceptionEntries :
            LET e == EntryName(ReadEntries(entries)[k])
            IN /\ ~e.panic
               /\ e.name = readData(dump).names[k]
               /\ pc /= "indexed" => writtenEntries[k].name = readData(dump).names[k]

\* The workers (1-based) that were spawned and whose result the writer has
\* not received yet.
Outstanding ==
    {k \in 1..Len(workers) :
        /\ workers[k].pc /= "unborn"
        /\ ~(k < writer.i \/ (k = writer.i /\ writer.pc \in {"release", "write", "put"}))}

\* The workers that are reading and compressing their entry.
Compressing == {k \in 1..Len(workers) : workers[k].pc \in {"get", "copy"}}

\* C13 (bounded parallelism): with W tokens, at most W workers have been
\* spawned without the writer having received their result, so at most W
\* entries are read and compressed at the same time.
C13_BoundedParallelism ==
    pc \in {"compress", "compressed", "panic"} =>
        /\ Cardinality(Outstanding) <= tokens.cap
        /\ Cardinality(Compressing) <= tokens.cap

\* As many workers as there are tokens compress at the same time, and an
\* entry is still waiting for a token.
C13_Witness ==
    /\ pc = "compress"
    /\ tokens.cap >= 2
    /\ Cardinality(Compressing) = tokens.cap
    /\ producer.pc = "acquire"

\* The bytes written to the packed payload before the k-th length prefix.
RECURSIVE PositionOf(_, _)
PositionOf(writes, k) ==
    IF k <= 1 THEN 0
    ELSE PositionOf(writes, k - 1) + Len(writes[k - 1].prefix) + writes[k - 1].len

\* The sum over j <= k of 3 + the compressed length of entry j.
RECURSIVE SumOfSizes(_, _)
SumOfSizes(lens, k) == IF k = 0 THEN 0 ELSE SumOfSizes(lens, k - 1) + 3 + lens[k]

LongestCommonPrefix(a, b) ==
    LET ks == {k \in 0..Min(Len(a), Len(b)) : SubSeq(a, 1, k) = SubSeq(b, 1, k)}
    IN CHOOSE k \in ks : \A l \in ks : l <= k

\* Row i (1-based) is one a first-level row other than the first points at.
IsJumpBoundary(i) ==
    \E j \in 2..Len(index.offsets) : index.offsets[j] = index.written[i].pos

\* The code units stored in the second-level bytes for row i.
StoredUnits(i) ==
    LET at == index.written[i].pos
    IN [c \in 1..index.secondLevel[at + 2] |-> Uint16At(index.secondLevel, at + 2 + 2 * (c - 1))]

\* C15 (front-compression encoding): the stored common_prefix_len of a row
\* is 0 for the first row and for a jump boundary and otherwise the length
\* of the longest common prefix with the key before it; common_prefix_len
\* plus remaining_len is the length of the key; the shared code units of
\* the key before it followed by the stored code units are the key.
C15_FrontCompression ==
    Archived =>
        \A i \in 1..Len(index.written) :
            LET at == index.written[i].pos
                common == index.secondLevel[at + 1]
                remaining == index.secondLevel[at + 2]
                key == index.rows[i].nameUTF16
                prev == IF i = 1 THEN <<>> ELSE index.rows[i - 1].nameUTF16
            IN /\ common = IF i = 1 \/ IsJumpBoundary(i) THEN 0
                           ELSE LongestCommonPrefix(prev, key)
               /\ common + remaining = Len(key)
               /\ SubSeq(prev, 1, common) \o StoredUnits(i) = key

\* An archive with a row that shares code units with the row before it and
\* a jump boundary that would share some but stores none.
C15_Witness ==
    /\ Archived
    /\ \E i \in 2..Len(index.written) :
           ~IsJumpBoundary(i) /\ index.secondLevel[index.written[i].pos + 1] > 0
    /\ \E i \in 2..Len(index.written) :
           /\ IsJumpBoundary(i)
           /\ LongestCommonPrefix(index.rows[i - 1].nameUTF16, index.rows[i].nameUTF16) > 0

\* The last row before row i (i > 1) that a first-level row points at.
LastEntryRow(i) ==
    LET js == {j \in 1..(i - 1) : j = 1 \/ IsJumpBoundary(j)}
    IN CHOOSE j \in js : \A l \in js : l <= j

\* The first-level key of row i.
RowFirstLevelKey(i) == newFirstLevelIndexKey(index.rows[i].nameUTF16)

\* What a jump boundary at row i comes with: the first-level row (key of
\* row i, position of row i) and a stored common_prefix_len of 0.
JumpWritten(i) ==
    /\ \E j \in 2..Len(index.offsets) :
           index.offsets[j] = index.written[i].pos /\ index.keys[j] = RowFirstLevelKey(i)
    /\ index.secondLevel[index.written[i].pos + 1] = 0

\* C16 as stated (jump-boundary rule): row i > 1 is a jump boundary exactly
\* when the rows since the last first-level entry have reached the block
\* size and the first-level key of row i differs from the key of the last
\* first-level entry.
C16_JumpRuleAsStated ==
    Archived =>
        \A i \in 2..Len(index.written) :
            /\ IsJumpBoundary(i) <=>
                   (i - LastEntryRow(i) >= RowsPerJump
                    /\ RowFirstLevelKey(i) /= RowFirstLevelKey(LastEntryRow(i)))
            /\ IsJumpBoundary(i) => JumpWritten(i)

\* C16 amended: row i > 1 is a jump boundary exactly when the rows since the
\* last first-level entry have reached the block size and the first-level
\* key of row i differs from the first-level key of row i - 1; the
\* first-level row appended is (key of row i, position of row i) and row i
\* is stored with common_prefix_len = 0, so every first-level offset but
\* the first lands on such a row.
C16_JumpRule ==
    Archived =>
        /\ \A i \in 2..Len(index.written) :
               /\ IsJumpBoundary(i) <=>
                      (i - LastEntryRow(i) >= RowsPerJump
                       /\ RowFirstLevelKey(i) /= RowFirstLevelKey(i - 1))
               /\ IsJumpBoundary(i) => JumpWritten(i)
        /\ \A j \in 2..Len(index.offsets) :
               \E i \in 2..Len(index.written) :
                   index.written[i].pos = index.offsets[j] /\ JumpWritten(i)

\* An archive with a full block whose next row keeps the first-level key
\* of the row before it, though not the key of the last first-level entry,
\* and with a jump boundary after it.
C16_Witness ==
    /\ Archived
    /\ \E i \in 2..Len(index.written) :
           /\ i - LastEntryRow(i) >= RowsPerJump
           /\ RowFirstLevelKey(i) = RowFirstLevelKey(i - 1)
           /\ RowFirstLevelKey(i) /= RowFirstLevelKey(LastEntryRow(i))
           /\ \E k \in (i + 1)..Len(index.written) : IsJumpBoundary(k)

\* The bytes of the key of row i followed by its 5-byte offset.
KeyAndOffsetBytes(i) ==
    ConcatFixed([c \in 1..Len(index.rows[i].nameUTF16) |-> LE16(index.rows[i].nameUTF16[c])], 2)
    \o appendOffset(index.rows[i].offset)

\* C17 (reader row decoding): a pass of a reader walk that starts at a row
\* whose key has at most 127 code units consumes 2 + remaining_len * 2 + 5
\* bytes, so the next header read starts at the next row, and leaves the
\* row's key followed by its offset at the start of the scratch buffer.
C17_RowDecoding ==
    (pc = "open" /\ res.op = "walk" /\ res.from >= 0) =>
        \A i \in 1..Len(index.written) :
            res.from = Len(payload) + index.written[i].pos =>
                LET remaining == index.written[i].remaining
                    key == index.rows[i].nameUTF16
                IN /\ res.kind = "row"
                   /\ res.pos = res.from + 2 + remaining * 2 + 5
                   /\ SubSeq(wiki.buf, 1, 2 * Len(key) + 5) = KeyAndOffsetBytes(i)

\* The k-th file of the dump is read by the indexer: its name, as the
\* indexer forms it, has at most 127 code units, and under _exceptions/ it
\* does not begin with "X".
DumpFileName(f, inExceptions) ==
    IF inExceptions THEN CutPrefix(ReplaceAll(f.name, PercentTwoF, Slash), PrefixA).rest
    ELSE f.name

DumpFileRead(f, inExceptions) ==
    /\ Len(Utf16Encode(DumpFileName(f, inExceptions))) <= MaxKeyChars
    /\ ~(inExceptions /\ HasPrefix(f.name, <<88>>))

\* The redirect files the indexer reads, in the order it reads them, each
\* with its source name and its normalized target name.
RECURSIVE RawRedirectsOf(_, _)
RawRedirectsOf(files, inExceptions) ==
    IF files = <<>> THEN <<>>
    ELSE LET f == Head(files)
             name == DumpFileName(f, inExceptions)
         IN (IF DumpFileRead(f, inExceptions) /\ f.kind = "redirect"
             THEN <<[name |-> name,
                     target |-> IF inExceptions THEN exceptionTarget(name, f.target)
                                ELSE redirectTarget(name, f.target)]>>
             ELSE <<>>) \o RawRedirectsOf(Tail(files), inExceptions)

RawRedirects == RawRedirectsOf(dump.A, FALSE) \o RawRedirectsOf(dump.exceptions, TRUE)

\* The names of the entry files the indexer reads, in the order it reads them.
RECURSIVE EntryFileNames(_, _)
EntryFileNames(files, inExceptions) ==
    IF files = <<>> THEN <<>>
    ELSE (IF DumpFileRead(Head(files), inExceptions) /\ Head(files).kind = "entry"
          THEN <<DumpFileName(Head(files), inExceptions)>> ELSE <<>>)
         \o EntryFileNames(Tail(files), inExceptions)

RegisteredNames == EntryFileNames(dump.A, FALSE) \o EntryFileNames(dump.exceptions, TRUE)

\* The redirect files whose normalized target is the name of an entry.
RECURSIVE Resolvable(_)
Resolvable(raw) ==
    IF raw = <<>> THEN <<>>
    ELSE (IF \E k \in 1..Len(RegisteredNames) : RegisteredNames[k] = Head(raw).target
          THEN <<Head(raw)>> ELSE <<>>) \o Resolvable(Tail(raw))

\* C18 (redirect resolution): the indexer emits a redirect only for a
\* redirect file whose normalized target is the name of an entry, with an
\* index in [0, N) of an entry registered under that name; the redirect
\* files with any other target are dropped without error, and the entries
\* are the entry files whatever the redirects are.
C18_RedirectResolution ==
    pc \in {"indexed", "input", "built", "open"} =>
        /\ Len(entries) = Len(RegisteredNames)
        /\ Len(redirects) = Len(Resolvable(RawRedirects))
        /\ \A k \in 1..Len(redirects) :
               /\ redirects[k].name = Resolvable(RawRedirects)[k].name
               /\ redirects[k].entryIdx \in 0..(Len(entries) - 1)
               /\ RegisteredNames[redirects[k].entryIdx + 1] = Resolvable(RawRedirects)[k].target

\* The indexer emitted a redirect and dropped another one.
C18_Witness ==
    /\ pc = "indexed"
    /\ Len(redirects) >= 1
    /\ Len(RawRedirects) > Len(redirects)
    /\ redirects[1].entryIdx + 1 = Len(entries)

\* A worker that is at its send finds its channel empty.
SendNeverBlocks ==
    \A idx \in 1..Len(workers) : workers[idx].pc = "send" => results[idx] = <<>>

\* The writer stopped in the fatal error of the size check.
SizeFatal == pc = "panic" /\ writer.pc = "write"

=============================================================================
